---- MODULE Spec2Model ----
(***************************************************************************)
(* Model of src/src/components/JSONTreeVisualizer.tsx: the React state of  *)
(* the JSONTreeVisualizer component (jsonInput, searchPath, nodes, edges,   *)
(* error, searchResult, isDark) and its handlers (handleVisualize with      *)
(* createTree and layoutNodes, handleSearch, onNodeClick, the theme toggle  *)
(* with its effect, handleClear).                                           *)
(*                                                                         *)
(* Strings whose characters matter (object keys, labels, paths, the search  *)
(* field) are sequences of one-character strings, so that template-string   *)
(* concatenation, trim() and startsWith() are computed character by         *)
(* character.  Node and edge ids, which the code only compares for          *)
(* equality, are TLA+ strings built with \o and ToString.                   *)
(*                                                                         *)
(* The viewport (rfInstance.setCenter) belongs to React Flow and is not     *)
(* part of the component's state; handleSearch's call to it changes none    *)
(* of the variables below.                                                  *)
(***************************************************************************)
EXTENDS Integers, Sequences, FiniteSets, TLC

VARIABLES jsonInput, searchPath, nodes, edges, error, searchResult, isDark,
          lastOp, before

vars == <<jsonInput, searchPath, nodes, edges, error, searchResult, isDark,
          lastOp, before>>

(***************************************************************************)
(* Bounds                                                                  *)
(***************************************************************************)
\* SpecTree draws every JSON value of at most MaxNodes nodes.
MaxNodes == 4
\* Spec lets the user enter every JSON value of at most MaxDocNodes nodes,
\* besides the sample and the documents named below.
MaxDocNodes == 1

(***************************************************************************)
(* JSON values, as JSON.parse returns them.  An object lists its entries   *)
(* in Object.entries order (keys and items in step); an array has no keys. *)
(* A primitive carries its literal.                                        *)
(***************************************************************************)
Prim(lit) == [kind |-> "primitive", lit |-> lit, keys |-> <<>>, items |-> <<>>]
Obj(ks, vs) == [kind |-> "object", lit |-> "", keys |-> ks, items |-> vs]
Arr(vs) == [kind |-> "array", lit |-> "", keys |-> <<>>, items |-> vs]

\* Object keys of the generated values: a plain key and a key holding the
\* path separator.  Neither is an integer-like key, so Object.entries keeps
\* insertion order.
KeyA == <<"a">>
KeyB == <<"b">>
KeyAdotA == <<"a", ".", "a">>
KeyAdotB == <<"a", ".", "b">>
Keys == {KeyA, KeyAdotA}

Prims == {Prim("1")}

DistinctKeySeqs(w) ==
  {ks \in [1..w -> Keys] : \A i, j \in 1..w : i # j => ks[i] # ks[j]}

RECURSIVE ValuesOfSize(_), Forests(_, _)
\* The JSON values that createTree turns into exactly n nodes.
ValuesOfSize(n) ==
  IF n = 1
  THEN Prims \cup {Obj(<<>>, <<>>), Arr(<<>>)}
  ELSE UNION {
         {Obj(ks, f) : ks \in DistinctKeySeqs(w), f \in Forests(n - 1, w)}
           \cup {Arr(f) : f \in Forests(n - 1, w)}
         : w \in 1..(n - 1)}
\* The sequences of w values that hold n nodes together.
Forests(n, w) ==
  IF w = 0
  THEN IF n = 0 THEN {<<>>} ELSE {}
  ELSE UNION {
         {<<v>> \o f : v \in ValuesOfSize(m), f \in Forests(n - m, w - 1)}
         : m \in 1..(n - w + 1)}

ValuesUpTo(n) == UNION {ValuesOfSize(k) : k \in 1..n}

(***************************************************************************)
(* createTree                                                              *)
(***************************************************************************)
\* JavaScript's null and undefined; no node id and no JSON literal equals them.
Null == "null"
Undefined == "undefined"
\* if (parent): a string is truthy unless it is empty, null is falsy.
Truthy(s) == s # Null /\ s # ""

DigitChar == <<"0", "1", "2", "3", "4", "5", "6", "7", "8", "9">>
RECURSIVE Decimal(_)
\* `${idx}`: the decimal digits of a non-negative integer.
Decimal(n) ==
  IF n < 10
  THEN <<DigitChar[n + 1]>>
  ELSE Decimal(n \div 10) \o <<DigitChar[(n % 10) + 1]>>

RootLabel == <<"r", "o", "o", "t">>
RootPath == <<"$">>
\* `${currentPath}.${k}`
KeyPath(currentPath, k) == currentPath \o <<".">> \o k
\* `[${idx}]`
IndexLabel(idx) == <<"[">> \o Decimal(idx) \o <<"]">>
\* `${currentPath}[${idx}]`
IndexPath(currentPath, idx) == currentPath \o <<"[">> \o Decimal(idx) \o <<"]">>

\* `node-${nodeId++}` and `edge-${parent}-${id}`
NodeIdOf(n) == "node-" \o ToString(n)
EdgeIdOf(parent, id) == "edge-" \o parent \o "-" \o id

\* Array.isArray(value), then typeof value === "object" && value !== null.
NodeTypeOf(value) ==
  IF value.kind = "array" THEN "array"
  ELSE IF value.kind = "object" THEN "object"
  ELSE "primitive"

NewNode(id, value, label, currentPath) ==
  [id |-> id,
   type |-> "custom",
   data |-> [label |-> label,
             value |-> IF NodeTypeOf(value) = "primitive" THEN value.lit ELSE Undefined,
             type |-> NodeTypeOf(value),
             path |-> currentPath,
             isDark |-> isDark,
             isHighlighted |-> FALSE],
   position |-> [x |-> 0, y |-> 0],
   sourcePosition |-> "bottom",
   targetPosition |-> "top"]

\* Faulty variant: the edge starts at the node created last, not at the parent.
PushNodeFromPrevious(acc, id, parent, node) ==
  [nodeList |-> Append(acc.nodeList, node),
   edgeList |-> IF Truthy(parent)
                THEN Append(acc.edgeList,
                            [id |-> EdgeIdOf(acc.nodeList[Len(acc.nodeList)].id, id),
                             source |-> acc.nodeList[Len(acc.nodeList)].id,
                             target |-> id])
                ELSE acc.edgeList,
   nodeId |-> acc.nodeId + 1]

\* nodeList.push(node); if (parent) edgeList.push({...}); the counter moves on.
PushNode(acc, id, parent, node) ==
  [nodeList |-> Append(acc.nodeList, node),
   edgeList |-> IF Truthy(parent)
                THEN Append(acc.edgeList,
                            [id |-> EdgeIdOf(parent, id), source |-> parent, target |-> id])
                ELSE acc.edgeList,
   nodeId |-> acc.nodeId + 1]

RECURSIVE traverse(_, _, _, _, _), traverseChildren(_, _, _, _, _)

\* Faulty variant: the loop over the children stops one child early.
traverseChildrenDropLast(value, id, currentPath, i, acc) ==
  IF i >= Len(value.items)
  THEN acc
  ELSE LET acc1 ==
             IF NodeTypeOf(value) = "object"
             THEN traverse(value.items[i], id, value.keys[i],
                           KeyPath(currentPath, value.keys[i]), acc)
             ELSE traverse(value.items[i], id, IndexLabel(i - 1),
                           IndexPath(currentPath, i - 1), acc)
       IN traverseChildren(value, id, currentPath, i + 1, acc1)

\* One call of traverse; acc is the closure's nodeList, edgeList and nodeId.
traverse(value, parent, label, currentPath, acc) ==
  LET id == NodeIdOf(acc.nodeId)
      acc1 == PushNode(acc, id, parent, NewNode(id, value, label, currentPath))
  IN IF NodeTypeOf(value) \in {"object", "array"}
     THEN traverseChildren(value, id, currentPath, 1, acc1)
     ELSE acc1
\* The forEach over Object.entries(value) or over the array, from the i-th
\* child on (i counts from 1; the array index is i - 1).
traverseChildren(value, id, currentPath, i, acc) ==
  IF i > Len(value.items)
  THEN acc
  ELSE LET acc1 ==
             IF NodeTypeOf(value) = "object"
             THEN traverse(value.items[i], id, value.keys[i],
                           KeyPath(currentPath, value.keys[i]), acc)
             ELSE traverse(value.items[i], id, IndexLabel(i - 1),
                           IndexPath(currentPath, i - 1), acc)
       IN traverseChildren(value, id, currentPath, i + 1, acc1)

createTree(obj) ==
  LET acc == traverse(obj, Null, RootLabel, RootPath,
                      [nodeList |-> <<>>, edgeList |-> <<>>, nodeId |-> 0])
  IN [nodes |-> acc.nodeList, edges |-> acc.edgeList]

(***************************************************************************)
(* layoutNodes                                                             *)
(***************************************************************************)
HorizontalSpacing == 200
VerticalSpacing == 150

\* if (!levels[level]) levels[level] = []; levels[level].push(nodeId)
PushLevel(levels, level, nodeId) ==
  IF level \in DOMAIN levels
  THEN [levels EXCEPT ![level] = Append(@, nodeId)]
  ELSE (level :> <<nodeId>>) @@ levels

RECURSIVE findLevel(_, _, _, _), findLevelEdges(_, _, _, _, _)
\* st is the closure's visited set and levels record.
findLevel(edgeList, nodeId, level, st) ==
  IF nodeId \in st.visited
  THEN st
  ELSE findLevelEdges(edgeList, nodeId, level, 1,
                      [visited |-> st.visited \cup {nodeId},
                       levels |-> PushLevel(st.levels, level, nodeId)])
\* edges.forEach from the i-th edge on.
findLevelEdges(edgeList, nodeId, level, i, st) ==
  IF i > Len(edgeList)
  THEN st
  ELSE findLevelEdges(edgeList, nodeId, level, i + 1,
                      IF edgeList[i].source = nodeId
                      THEN findLevel(edgeList, edgeList[i].target, level + 1, st)
                      ELSE st)

\* nodes.find((n) => !edges.some((e) => e.target === n.id)): its index, 0 if none.
RootIndex(nodeList, edgeList) ==
  LET free == {i \in 1..Len(nodeList) :
                 \A e \in 1..Len(edgeList) : edgeList[e].target # nodeList[i].id}
  IN IF free = {} THEN 0 ELSE CHOOSE i \in free : \A j \in free : i <= j

Levels(nodeList, edgeList) ==
  LET r == RootIndex(nodeList, edgeList)
      st0 == [visited |-> {}, levels |-> <<>>]
  IN IF r = 0 THEN st0.levels
     ELSE findLevel(edgeList, nodeList[r].id, 0, st0).levels

\* Faulty variant: the half of the level size is taken by integer division.
LevelXFloor(index, len) == (index - (len \div 2)) * HorizontalSpacing

\* (index - nodeIds.length / 2) * 200 with the 0-based index; the halves are
\* exact in floating point, and 200 is even, so the result is this integer.
LevelX(index, len) == ((2 * index - len) * HorizontalSpacing) \div 2
LevelY(levelNum) == levelNum * VerticalSpacing

\* nodes.find((n) => n.id === nodeId): its index, 0 if none.
FindById(nodeList, id) ==
  LET hits == {i \in 1..Len(nodeList) : nodeList[i].id = id}
  IN IF hits = {} THEN 0 ELSE CHOOSE i \in hits : \A j \in hits : i <= j

\* The forEach over the levels: the node found for a listed id gets its
\* position; visited guarantees that an id is listed once.  Every other
\* node is returned as it came.
layoutNodes(nodeList, edgeList) ==
  LET levels == Levels(nodeList, edgeList)
      Slots(id) == {<<l, k>> \in UNION {{l} \X (1..Len(levels[l])) : l \in DOMAIN levels} :
                      levels[l][k] = id}
      Place(i) ==
        LET n == nodeList[i]
        IN IF Slots(n.id) = {} \/ FindById(nodeList, n.id) # i
           THEN n
           ELSE LET h == CHOOSE h \in Slots(n.id) : TRUE
                IN [n EXCEPT !.position =
                      [x |-> LevelX(h[2] - 1, Len(levels[h[1]])), y |-> LevelY(h[1])]]
  IN [i \in 1..Len(nodeList) |-> Place(i)]

(***************************************************************************)
(* The text of the JSON input and JSON.parse.  A text is known by what     *)
(* JSON.parse makes of it: the value it returns, or the message of the     *)
(* SyntaxError it throws.                                                  *)
(***************************************************************************)
GoodText(v) == [ok |-> TRUE, value |-> v, message |-> ""]
\* (value is not read when ok is FALSE)
BadText(m) == [ok |-> FALSE, value |-> Prim("null"), message |-> m]

\* The text `{"a":}` and the empty text that handleClear leaves.
MalformedText == BadText("Unexpected token '}', \"{\"a\":}\" is not valid JSON")
EmptyText == BadText("Unexpected end of JSON input")

Str(lit) == Prim("\"" \o lit \o "\"")
\* const sampleJSON, parsed.
sampleValue ==
  Obj(<< <<"u", "s", "e", "r">>, <<"i", "t", "e", "m", "s">>,
         <<"a", "c", "t", "i", "v", "e">>, <<"s", "c", "o", "r", "e">> >>,
      << Obj(<< <<"i", "d">>, <<"n", "a", "m", "e">>, <<"e", "m", "a", "i", "l">>,
                <<"a", "d", "d", "r", "e", "s", "s">> >>,
             << Prim("1"), Str("John Doe"), Str("john@example.com"),
                Obj(<< <<"s", "t", "r", "e", "e", "t">>, <<"c", "i", "t", "y">>,
                       <<"c", "o", "u", "n", "t", "r", "y">> >>,
                    << Str("123 Main St"), Str("New York"), Str("USA") >>) >>),
         Arr(<< Obj(<< <<"n", "a", "m", "e">>, <<"p", "r", "i", "c", "e">> >>,
                    << Str("Laptop"), Prim("999") >>),
                Obj(<< <<"n", "a", "m", "e">>, <<"p", "r", "i", "c", "e">> >>,
                    << Str("Mouse"), Prim("25") >>) >>),
         Prim("true"),
         Prim("95.5") >>)
sampleJSON == GoodText(sampleValue)

(***************************************************************************)
(* String helpers of handleSearch                                          *)
(***************************************************************************)
IsSpace(c) == c = " "
RECURSIVE TrimStart(_), TrimEnd(_)
TrimStart(s) == IF s # <<>> /\ IsSpace(Head(s)) THEN TrimStart(Tail(s)) ELSE s
TrimEnd(s) ==
  IF s # <<>> /\ IsSpace(s[Len(s)]) THEN TrimEnd(SubSeq(s, 1, Len(s) - 1)) ELSE s
\* String.prototype.trim
Trim(s) == TrimEnd(TrimStart(s))
\* s.startsWith("$")
StartsWithDollar(s) == s # <<>> /\ Head(s) = "$"

\* Faulty variant: startsWith("$") is asked of the untrimmed string.
NormalizedPathUntrimmed(s) ==
  IF StartsWithDollar(s) THEN Trim(s) ELSE <<"$", ".">> \o Trim(s)

\* const normalizedPath = ...
NormalizedPath(s) ==
  IF StartsWithDollar(Trim(s)) THEN Trim(s) ELSE <<"$", ".">> \o Trim(s)

\* nodes.find((n) => n.data.path === normalizedPath): its index, 0 if none.
FindByPath(nodeList, path) ==
  LET hits == {i \in 1..Len(nodeList) : nodeList[i].data.path = path}
  IN IF hits = {} THEN 0 ELSE CHOOSE i \in hits : \A j \in hits : i <= j

\* nodes.map((n) => ({...n, data: {...n.data, isHighlighted: false}}))
ClearHighlights(nodeList) ==
  [i \in 1..Len(nodeList) |-> [nodeList[i] EXCEPT !.data.isHighlighted = FALSE]]
\* Faulty variant: the nodes are compared by path, not by id.
HighlightOnlyByPath(nodeList, id) ==
  [i \in 1..Len(nodeList) |->
     [nodeList[i] EXCEPT !.data.isHighlighted =
        \E j \in 1..Len(nodeList) :
          nodeList[j].id = id /\ nodeList[j].data.path = nodeList[i].data.path]]

\* nodes.map((n) => ({...n, data: {...n.data, isHighlighted: n.id === id}}))
HighlightOnly(nodeList, id) ==
  [i \in 1..Len(nodeList) |->
     [nodeList[i] EXCEPT !.data.isHighlighted = (nodeList[i].id = id)]]
\* Faulty variant: the theme effect rebuilds each node's data and loses the highlight.
StampThemeResetting(nodeList, dark) ==
  [i \in 1..Len(nodeList) |->
     [nodeList[i] EXCEPT !.data.isDark = dark, !.data.isHighlighted = FALSE]]

\* nodes.map((n) => ({...n, data: {...n.data, isDark}}))
StampTheme(nodeList, dark) ==
  [i \in 1..Len(nodeList) |-> [nodeList[i] EXCEPT !.data.isDark = dark]]

MatchFound == "Match found!"
NoMatchFound == "No match found"

\* Faulty variant: an empty search string resets the result and leaves the nodes alone.
SearchOutcomeKeepingHighlights(nodeList, s) ==
  IF Trim(s) = <<>>
  THEN [nodes |-> nodeList, searchResult |-> "", matched |-> 0]
  ELSE LET m == FindByPath(nodeList, NormalizedPath(s))
       IN IF m # 0
          THEN [nodes |-> HighlightOnly(nodeList, nodeList[m].id),
                searchResult |-> "Match found!", matched |-> m]
          ELSE [nodes |-> ClearHighlights(nodeList),
                searchResult |-> "No match found", matched |-> 0]

\* What handleSearch sets for search string s over nodeList: the new node
\* list, the new search result and the node it matched (0 if none).
SearchOutcome(nodeList, s) ==
  IF Trim(s) = <<>>
  THEN [nodes |-> ClearHighlights(nodeList), searchResult |-> "", matched |-> 0]
  ELSE LET m == FindByPath(nodeList, NormalizedPath(s))
       IN IF m # 0
          THEN [nodes |-> HighlightOnly(nodeList, nodeList[m].id),
                searchResult |-> MatchFound, matched |-> m]
          ELSE [nodes |-> ClearHighlights(nodeList),
                searchResult |-> NoMatchFound, matched |-> 0]

(***************************************************************************)
(* History: lastOp is the handler that ran last, before is what the state  *)
(* held when it started.  No handler reads them.                           *)
(***************************************************************************)
Highlighted(nodeList) == {i \in 1..Len(nodeList) : nodeList[i].data.isHighlighted}

Snapshot ==
  [matchFound |-> searchResult = "Match found!",
   hasTree |-> Len(nodes) > 0,
   hasHighlight |-> Highlighted(nodes) # {}]

(***************************************************************************)
(* Handlers                                                                *)
(***************************************************************************)
\* Faulty variant: the catch branch sets the error and keeps the tree on display.
VisualizeKeepingTree(text) ==
  /\ jsonInput' = text
  /\ IF text.ok
     THEN LET tree == createTree(text.value)
          IN /\ error' = ""
             /\ searchResult' = ""
             /\ nodes' = layoutNodes(tree.nodes, tree.edges)
             /\ edges' = tree.edges
     ELSE /\ error' = "Invalid JSON: " \o text.message
          /\ UNCHANGED <<nodes, edges, searchResult>>
  /\ lastOp' = "visualize"
  /\ before' = Snapshot
  /\ UNCHANGED <<searchPath, isDark>>

\* handleVisualize, with text in the textarea.
VisualizeWith(text) ==
  /\ jsonInput' = text
  /\ IF text.ok
     THEN LET tree == createTree(text.value)
          IN /\ error' = ""
             /\ searchResult' = ""
             /\ nodes' = layoutNodes(tree.nodes, tree.edges)
             /\ edges' = tree.edges
     ELSE /\ error' = "Invalid JSON: " \o text.message
          /\ nodes' = <<>>
          /\ edges' = <<>>
          /\ UNCHANGED searchResult
  /\ lastOp' = "visualize"
  /\ before' = Snapshot
  /\ UNCHANGED <<searchPath, isDark>>

\* handleSearch, with s in the search field.
SearchWith(s) ==
  /\ searchPath' = s
  /\ nodes' = SearchOutcome(nodes, s).nodes
  /\ searchResult' = SearchOutcome(nodes, s).searchResult
  /\ lastOp' = "search"
  /\ before' = Snapshot
  /\ UNCHANGED <<jsonInput, edges, error, isDark>>

\* onNodeClick on the k-th node; React Flow is mounted only while there are nodes.
NodeClick ==
  \E k \in 1..Len(nodes) :
    LET path == nodes[k].data.path
    IN /\ IF path # <<>>
          THEN /\ searchPath' = path
               /\ nodes' = HighlightOnly(nodes, nodes[k].id)
          ELSE UNCHANGED <<searchPath, nodes>>
       /\ lastOp' = "click"
       /\ before' = Snapshot
       /\ UNCHANGED <<jsonInput, edges, error, searchResult, isDark>>

\* The theme button's onClick and the effect that isDark's change runs.
ToggleTheme ==
  /\ isDark' = ~isDark
  /\ nodes' = IF Len(nodes) > 0 THEN StampTheme(nodes, ~isDark) ELSE nodes
  /\ lastOp' = "theme"
  /\ before' = Snapshot
  /\ UNCHANGED <<jsonInput, searchPath, edges, error, searchResult>>

handleClear ==
  /\ jsonInput' = EmptyText
  /\ nodes' = <<>>
  /\ edges' = <<>>
  /\ error' = ""
  /\ searchResult' = ""
  /\ searchPath' = <<>>
  /\ lastOp' = "clear"
  /\ before' = Snapshot
  /\ UNCHANGED isDark

(***************************************************************************)
(* Spec: the component in use.  The user edits the textarea and presses    *)
(* Generate Tree, edits the search field and presses Search, clicks nodes, *)
(* toggles the theme and clears.                                           *)
(***************************************************************************)
DocValues == ValuesUpTo(MaxDocNodes)

\* {"a": {"b": 1}}, {"a": [1, 2]}, {"a.b": 1, "a": {"b": 2}} and {"a ": 1}
NestedValue == Obj(<<KeyA>>, <<Obj(<<KeyB>>, <<Prim("1")>>)>>)
ArrayValue == Obj(<<KeyA>>, <<Arr(<<Prim("1"), Prim("2")>>)>>)
DottedKeyValue ==
  Obj(<<KeyAdotB, KeyA>>, <<Prim("1"), Obj(<<KeyB>>, <<Prim("2")>>)>>)

TrailingSpaceValue == Obj(<< <<"a", " ">> >>, <<Prim("1")>>)

JsonTexts ==
  {GoodText(v) : v \in DocValues \cup {sampleValue, NestedValue, ArrayValue,
                                       DottedKeyValue, TrailingSpaceValue}}
    \cup {MalformedText, EmptyText}

SearchInputs ==
  { <<>>, <<" ">>, <<"$">>, <<"a">>, <<" ", "a", " ">>, <<"$", ".", "a">>,
    <<"a", ".", "b">>, <<"$", ".", "a", ".", "b">>, <<"a", "[", "0", "]">>,
    <<"$", "[", "0", "]">>, <<"x">> }

Init ==
  /\ jsonInput = sampleJSON
  /\ searchPath = <<>>
  /\ nodes = <<>>
  /\ edges = <<>>
  /\ error = ""
  /\ searchResult = ""
  /\ isDark = TRUE
  /\ lastOp = "init"
  /\ before = [matchFound |-> FALSE, hasTree |-> FALSE, hasHighlight |-> FALSE]

GenerateTree == \E text \in JsonTexts \cup {jsonInput} : VisualizeWith(text)
Search == \E s \in SearchInputs \cup {searchPath} : SearchWith(s)

Next == GenerateTree \/ Search \/ NodeClick \/ ToggleTheme \/ handleClear

Spec == Init /\ [][Next]_vars

(***************************************************************************)
(* SpecTree: the tree builder, the layout and the path search on every     *)
(* JSON value of at most MaxNodes nodes.  The textarea holds the value's   *)
(* text; the user generates the tree, clicks nodes, and searches for what  *)
(* the click put into the search field.                                    *)
(***************************************************************************)
InitTree ==
  /\ jsonInput \in {GoodText(v) : v \in ValuesUpTo(MaxNodes)}
  /\ searchPath = <<>>
  /\ nodes = <<>>
  /\ edges = <<>>
  /\ error = ""
  /\ searchResult = ""
  /\ isDark = TRUE
  /\ lastOp = "init"
  /\ before = [matchFound |-> FALSE, hasTree |-> FALSE, hasHighlight |-> FALSE]

handleVisualize == VisualizeWith(jsonInput)
handleSearch == SearchWith(searchPath)

NextTree == handleVisualize \/ NodeClick \/ handleSearch

SpecTree == InitTree /\ [][NextTree]_vars

(***************************************************************************)
(* Reference definitions for the claims: the JSON value read by position.  *)
(* An address is the sequence of child positions leading from the top      *)
(* value to a contained value.                                             *)
(***************************************************************************)
RECURSIVE Flatten(_)
Flatten(ss) == IF ss = <<>> THEN <<>> ELSE Head(ss) \o Flatten(Tail(ss))

RECURSIVE PreOrder(_)
\* The addresses of v and of everything it contains, containers before
\* their contents, contents in order.
PreOrder(v) ==
  <<<<>>>> \o
    Flatten([i \in 1..Len(v.items) |->
               LET sub == PreOrder(v.items[i])
               IN [j \in 1..Len(sub) |-> <<i>> \o sub[j]]])

RECURSIVE ValueAt(_, _)
ValueAt(v, addr) == IF addr = <<>> THEN v ELSE ValueAt(v.items[Head(addr)], Tail(addr))

RECURSIVE CountEntries(_)
\* The object entries and array elements reachable in v, counted recursively.
CountEntries(v) ==
  Len(v.items) + (LET sub == [i \in 1..Len(v.items) |-> CountEntries(v.items[i])]
                      Sum[k \in 0..Len(sub)] == IF k = 0 THEN 0 ELSE Sum[k - 1] + sub[k]
                  IN Sum[Len(sub)])

Front(s) == SubSeq(s, 1, Len(s) - 1)
IndexIn(seq, x) == CHOOSE i \in 1..Len(seq) : seq[i] = x

\* The tree on display was built from the text in the textarea.
Built == nodes # <<>>
BuiltValue == jsonInput.value

IncomingEdges(id) == {e \in 1..Len(edges) : edges[e].target = id}
OutgoingEdges(id) == {e \in 1..Len(edges) : edges[e].source = id}

(***************************************************************************)
(* C1  Path uniqueness: all path strings of the nodes of one build are     *)
(* pairwise distinct, whatever characters the object keys hold.            *)
(* Refuted: {"a.a": 1, "a": {"a": 2}} yields the path $.a.a twice.         *)
(***************************************************************************)
C1_PathsPairwiseDistinct ==
  \A i, j \in 1..Len(nodes) : i # j => nodes[i].data.path # nodes[j].data.path

(***************************************************************************)
(* C2  Round trip: a search whose search string is exactly node k's path   *)
(* selects node k itself, with result 'Match found!'.                      *)
(* Refuted: with two nodes of one path the search selects the first.       *)
(***************************************************************************)
C2_SearchOwnPathSelectsNode ==
  \A k \in 1..Len(nodes) :
    (lastOp = "search" /\ searchPath = nodes[k].data.path)
      => (Highlighted(nodes) = {k} /\ searchResult = MatchFound)

(***************************************************************************)
(* C4  Pure tree: exactly one node, the first, labelled 'root' with path   *)
(* '$', is the target of no edge; every other node is the target of        *)
(* exactly one edge, whose source is the node created for its containing   *)
(* object or array.                                                        *)
(***************************************************************************)
C4_PureTree ==
  Built =>
    LET addrs == PreOrder(BuiltValue)
    IN /\ Len(nodes) = Len(addrs)
       /\ nodes[1].data.label = <<"r", "o", "o", "t">>
       /\ nodes[1].data.path = <<"$">>
       /\ IncomingEdges(nodes[1].id) = {}
       /\ \A k \in 2..Len(nodes) :
            /\ Cardinality(IncomingEdges(nodes[k].id)) = 1
            /\ \A e \in IncomingEdges(nodes[k].id) :
                 LET p == IndexIn(addrs, Front(addrs[k]))
                 IN /\ edges[e].source = nodes[p].id
                    /\ nodes[p].data.type = ValueAt(BuiltValue, addrs[p]).kind
                    /\ nodes[p].data.type \in {"object", "array"}
       /\ \A i, j \in 1..Len(nodes) : i # j => nodes[i].id # nodes[j].id
       /\ \A e \in 1..Len(edges) : \E k \in 2..Len(nodes) : edges[e].target = nodes[k].id

C4_Witness ==
  /\ Built
  /\ lastOp = "visualize"
  /\ Len(edges) = 3
  /\ \E e \in 1..Len(edges) : edges[e].source # nodes[1].id

(***************************************************************************)
(* C5  Node count: the number of nodes equals 1 plus the number of object  *)
(* entries and array elements reachable in the value; each node has as     *)
(* many children as its value has entries, so an empty object or array is  *)
(* one node of its kind with no children.                                  *)
(***************************************************************************)
C5_NodeCount ==
  Built =>
    LET addrs == PreOrder(BuiltValue)
    IN /\ Len(nodes) = 1 + CountEntries(BuiltValue)
       /\ Len(edges) = CountEntries(BuiltValue)
       /\ \A k \in 1..Len(nodes) :
            k <= Len(addrs) =>
              LET v == ValueAt(BuiltValue, addrs[k])
              IN /\ Cardinality(OutgoingEdges(nodes[k].id)) = Len(v.items)
                 /\ nodes[k].data.type = v.kind

C5_Witness ==
  /\ Built
  /\ lastOp = "visualize"
  /\ Len(nodes) = 4
  /\ \E k \in 2..Len(nodes) :
       nodes[k].data.type \in {"object", "array"} /\ OutgoingEdges(nodes[k].id) = {}

(***************************************************************************)
(* C9  Layout: every node is placed at y = 150 * (its breadth-first depth  *)
(* from the root) and x = (i - n/2) * 200, n being the number of nodes at  *)
(* that depth and i the node's 0-based place among them in breadth-first   *)
(* order; the depth-first level assignment of the code yields the levels   *)
(* and the order within each level of the breadth-first traversal.         *)
(***************************************************************************)
\* Breadth-first traversal of the displayed graph, level by level.
RootId == nodes[CHOOSE k \in 1..Len(nodes) : IncomingEdges(nodes[k].id) = {}].id
ChildIds(id) ==
  LET out == SelectSeq(edges, LAMBDA e : e.source = id)
  IN [i \in 1..Len(out) |-> out[i].target]
RECURSIVE BFSFrom(_)
\* The levels of the breadth-first traversal, from the level given on.
BFSFrom(level) ==
  IF level = <<>>
  THEN <<>>
  ELSE <<level>> \o BFSFrom(Flatten([i \in 1..Len(level) |-> ChildIds(level[i])]))
\* BFSLevels[d + 1] lists the ids of breadth-first depth d, left to right.
BFSLevels == BFSFrom(<<RootId>>)

C9_LayeredLayout ==
  Built =>
    LET bfs == BFSLevels
        levels == Levels(nodes, edges)
    IN /\ \A k \in 1..Len(nodes) :
            \E d \in 0..(Len(bfs) - 1) :
              \E i \in 0..(Len(bfs[d + 1]) - 1) :
                /\ bfs[d + 1][i + 1] = nodes[k].id
                /\ nodes[k].position.y = 150 * d
                /\ 2 * nodes[k].position.x = (2 * i - Len(bfs[d + 1])) * 200
       /\ DOMAIN levels = 0..(Len(bfs) - 1)
       /\ \A d \in DOMAIN levels : levels[d] = bfs[d + 1]

\* A tree whose depth-first order is not its breadth-first order: a node of
\* depth 2 is created before a node of depth 1.
C9_Witness ==
  /\ Built
  /\ lastOp = "visualize"
  /\ \E j, k \in 1..Len(nodes) :
       j < k /\ nodes[j].position.y = 300 /\ nodes[k].position.y = 150

(***************************************************************************)
(* C3  Search normalization.  As claimed: the search selects the same node *)
(* or the same no-match outcome whether the search string s is given       *)
(* without or with the leading '$.', and with or without surrounding white *)
(* space.  Refuted for the empty string: '' clears the search and reports  *)
(* nothing, '$.' reports 'No match found'.                                 *)
(***************************************************************************)
Dollar(s) == <<"$", ".">> \o s
Padded(s) == {s, <<" ">> \o s, s \o <<" ">>, <<" ">> \o s \o <<" ">>}
\* The search strings tried on a node list: the strings the user types, the
\* paths on display, and those paths without their leading '$.' or '$'.
SearchStrings ==
  SearchInputs
    \cup {nodes[k].data.path : k \in 1..Len(nodes)}
    \cup {SubSeq(nodes[k].data.path, 3, Len(nodes[k].data.path)) : k \in 1..Len(nodes)}
    \cup {Tail(nodes[k].data.path) : k \in 1..Len(nodes)}

C6_ParseFailureClearsTree ==
  (lastOp = "visualize" /\ ~jsonInput.ok) =>
    /\ nodes = <<>>
    /\ edges = <<>>
    /\ error # ""
    /\ jsonInput.message # ""
    /\ error = "Invalid JSON: " \o jsonInput.message

\* The malformed text was visualized while a tree with a highlight was on display.
C6_Witness ==
  /\ lastOp = "visualize"
  /\ jsonInput = MalformedText
  /\ before.hasTree
  /\ before.hasHighlight
  /\ nodes = <<>>

(***************************************************************************)
(* C7  Search result: after a search with a search string that is not      *)
(* empty after trim, if some node's path equals the normalized string then *)
(* exactly that node is highlighted, every other node is not, and the      *)
(* result is 'Match found!'; otherwise no node is highlighted and the      *)
(* result is 'No match found'.  The three results differ pairwise.         *)
(* Refuted where two nodes carry the normalized string as their path (C1): *)
(* the second of them is left without highlight.                           *)
(***************************************************************************)
C7_SearchHighlightsMatch ==
  /\ MatchFound # NoMatchFound /\ MatchFound # "" /\ NoMatchFound # ""
  /\ (lastOp = "search" /\ Trim(searchPath) # <<>>) =>
       LET matching == {k \in 1..Len(nodes) : nodes[k].data.path = NormalizedPath(searchPath)}
       IN IF matching # {}
          THEN /\ \A k \in matching : Highlighted(nodes) = {k}
               /\ searchResult = "Match found!"
          ELSE /\ Highlighted(nodes) = {}
               /\ searchResult = "No match found"

\* Where the paths on display are pairwise distinct, the statement holds.
C7_OnDistinctPaths == C1_PathsPairwiseDistinct => C7_SearchHighlightsMatch

\* Where the paths are pairwise distinct, a path that ends in white space is
\* still not found by a search for it (the search string is trimmed).
C2_OnDistinctPaths == C1_PathsPairwiseDistinct => C2_SearchOwnPathSelectsNode

(***************************************************************************)
(* C8  Clearing the search: a search with an empty or white-space-only     *)
(* search string, run after a successful match, leaves no node highlighted *)
(* and the search result empty, and changes nothing else of the nodes or   *)
(* the edges.                                                              *)
(***************************************************************************)
C8_EmptySearchClears ==
  [][(lastOp' = "search" /\ Trim(searchPath') = <<>> /\ searchResult = MatchFound)
       => /\ Highlighted(nodes') = {}
          /\ searchResult' = ""
          /\ Len(nodes') = Len(nodes)
          /\ \A i \in 1..Len(nodes) :
               [nodes'[i] EXCEPT !.data.isHighlighted = FALSE]
                 = [nodes[i] EXCEPT !.data.isHighlighted = FALSE]
          /\ edges' = edges]_vars

\* A white-space-only search has just cleared the highlight of a match.
C8_Witness ==
  /\ lastOp = "search"
  /\ searchPath = <<" ">>
  /\ before.matchFound
  /\ before.hasHighlight
  /\ nodes # <<>>
  /\ Highlighted(nodes) = {}
  /\ searchResult = ""

(***************************************************************************)
(* C10  Frame: search, node click and theme toggle leave the node ids,     *)
(* labels, kinds, values, paths, positions and the edge list as they were. *)
(* Search and click change only isHighlighted on the nodes; theme toggle   *)
(* changes only isDark, which afterwards is the current theme on every     *)
(* node.                                                                   *)
(***************************************************************************)
C10_TreeStructureKept ==
  [][/\ lastOp' \in {"search", "click", "theme"} =>
          /\ edges' = edges
          /\ Len(nodes') = Len(nodes)
     /\ lastOp' \in {"search", "click"} =>
          \A i \in 1..Len(nodes) :
            [nodes'[i] EXCEPT !.data.isHighlighted = FALSE]
              = [nodes[i] EXCEPT !.data.isHighlighted = FALSE]
     /\ lastOp' = "theme" =>
          \A i \in 1..Len(nodes) :
            /\ [nodes'[i] EXCEPT !.data.isDark = TRUE] = [nodes[i] EXCEPT !.data.isDark = TRUE]
            /\ nodes'[i].data.isDark = isDark']_vars

\* The theme was switched to light while a search match was highlighted.
C10_Witness ==
  /\ lastOp = "theme"
  /\ ~isDark
  /\ before.matchFound
  /\ before.hasHighlight
  /\ Highlighted(nodes) # {}
  /\ \A i \in 1..Len(nodes) : ~nodes[i].data.isDark

(***************************************************************************)
(* C11  Single highlight: in every reachable state at most one node has    *)
(* isHighlighted = true; none has it right after a visualize or a clear;   *)
(* right after a node click exactly one has it, the clicked node, and the  *)
(* search field holds that node's path.                                    *)
(***************************************************************************)
C11_AtMostOneHighlight ==
  /\ Cardinality(Highlighted(nodes)) <= 1
  /\ lastOp \in {"visualize", "clear"} => Highlighted(nodes) = {}
  /\ lastOp = "click" =>
       \E k \in 1..Len(nodes) :
         /\ Highlighted(nodes) = {k}
         /\ searchPath = nodes[k].data.path

\* A node was clicked while another node was highlighted, in a tree where
\* a second node carries the clicked node's path.
C11_Witness ==
  /\ lastOp = "click"
  /\ before.hasHighlight
  /\ \E k, j \in 1..Len(nodes) :
       /\ k # j
       /\ Highlighted(nodes) = {k}
       /\ nodes[j].data.path = nodes[k].data.path
       /\ searchPath = nodes[k].data.path

====
